---- MODULE Spec2Model ----
(***************************************************************************)
(* ResourceID (src/src/lib.rs) and its Ulid wrapper (src/src/ulid.rs).     *)
(*                                                                         *)
(* A Rust String is modelled as the sequence of its Unicode scalar values  *)
(* (code points).  str::len(), the slices &s[..4] and &s[4..] and the       *)
(* decoder of the suffix work on the UTF-8 bytes of that sequence, which    *)
(* Utf8 computes; to_uppercase works on the characters.                    *)
(* A u128 is modelled as 8 limbs of 16 bits, most significant first.       *)
(***************************************************************************)
EXTENDS Integers, Sequences, FiniteSets, TLC

VARIABLES op, arg, ret, held, drawn, calls

vars == <<op, arg, ret, held, drawn, calls>>

(***************************************************************************)
(* Bounds of the model.                                                    *)
(***************************************************************************)
\* A run makes at most MaxCalls calls of ResourceID::new and from_str.
MaxCalls == 2
\* Texts given to from_str have a suffix region of ULID_LEN - MaxPad ..
\* ULID_LEN + MaxPad characters.
MaxPad == 1

(***************************************************************************)
(* Program constants.                                                      *)
(***************************************************************************)
TagLen == 4
IdLen == 30
ULID_LEN == 26
Limbs == 8
LimbBase == 65536

(***************************************************************************)
(* Characters and strings.                                                 *)
(***************************************************************************)
Digits == <<"0", "1", "2", "3", "4", "5", "6", "7", "8", "9">>
Uppers == <<"A", "B", "C", "D", "E", "F", "G", "H", "I", "J", "K", "L", "M",
            "N", "O", "P", "Q", "R", "S", "T", "U", "V", "W", "X", "Y", "Z">>
Lowers == <<"a", "b", "c", "d", "e", "f", "g", "h", "i", "j", "k", "l", "m",
            "n", "o", "p", "q", "r", "s", "t", "u", "v", "w", "x", "y", "z">>

\* The code point of an ASCII digit or letter written as a one-character string.
Ord(c) ==
    IF \E i \in 1..10 : Digits[i] = c
    THEN 47 + (CHOOSE i \in 1..10 : Digits[i] = c)
    ELSE IF \E i \in 1..26 : Uppers[i] = c
    THEN 64 + (CHOOSE i \in 1..26 : Uppers[i] = c)
    ELSE 96 + (CHOOSE i \in 1..26 : Lowers[i] = c)

\* A string literal, written one character per element.
Str(cs) == [i \in 1..Len(cs) |-> Ord(cs[i])]

\* The non-ASCII characters used in inputs: U+00E9, U+00C9, U+00DF, U+FB01,
\* U+0149, U+02BC, U+20AC.
NonAscii == [e_acute |-> 233, E_ACUTE |-> 201, sharp_s |-> 223, fi_lig |-> 64257,
             n_apos |-> 329, mod_apos |-> 700, euro |-> 8364]

RECURSIVE Concat(_)
\* The concatenation of a sequence of strings.
Concat(ss) == IF ss = <<>> THEN <<>> ELSE Head(ss) \o Concat(Tail(ss))

\* The string of n copies of character c.
Repeat(c, n) == [i \in 1..n |-> c]

\* char::len_utf8 / the UTF-8 encoding of one scalar value.
Utf8Char(c) ==
    IF c < 128 THEN <<c>>
    ELSE IF c < 2048 THEN <<192 + (c \div 64), 128 + (c % 64)>>
    ELSE IF c < 65536
    THEN <<224 + (c \div 4096), 128 + ((c \div 64) % 64), 128 + (c % 64)>>
    ELSE <<240 + (c \div 262144), 128 + ((c \div 4096) % 64),
           128 + ((c \div 64) % 64), 128 + (c % 64)>>

\* str::as_bytes: the UTF-8 bytes of a string.
Utf8(s) == Concat([i \in 1..Len(s) |-> Utf8Char(s[i])])

\* str::len: the length in bytes.
ByteLen(s) == Len(Utf8(s))

\* The number of characters (chars().count()).
CharLen(s) == Len(s)

\* char::to_uppercase: the full Unicode mapping, which may yield several
\* characters.
UpperChar(c) ==
    IF c >= 97 /\ c <= 122 THEN <<c - 32>>
    ELSE IF c = NonAscii.e_acute THEN <<NonAscii.E_ACUTE>>
    ELSE IF c = NonAscii.sharp_s THEN <<83, 83>>
    ELSE IF c = NonAscii.fi_lig THEN <<70, 73>>
    ELSE IF c = NonAscii.n_apos THEN <<NonAscii.mod_apos, 78>>
    ELSE <<c>>

\* str::to_uppercase.
to_uppercase(s) == Concat([i \in 1..Len(s) |-> UpperChar(s[i])])

\* str::is_char_boundary(i): byte offset i falls between two characters.
is_char_boundary(s, i) == \E k \in 0..Len(s) : ByteLen(SubSeq(s, 1, k)) = i

\* The number of characters before byte offset i (a char boundary).
CharsBefore(s, i) == CHOOSE k \in 0..Len(s) : ByteLen(SubSeq(s, 1, k)) = i

\* &s[..i] and &s[i..], defined when i is a char boundary (else they panic).
SliceTo(s, i) == SubSeq(s, 1, CharsBefore(s, i))
SliceFrom(s, i) == SubSeq(s, CharsBefore(s, i) + 1, Len(s))

(***************************************************************************)
(* The ulid crate's value and its base-32 text (wrapped by src/src/ulid.rs).*)
(***************************************************************************)
\* base32::ALPHABET: b"0123456789ABCDEFGHJKMNPQRSTVWXYZ", as byte values.
ALPHABET ==
    <<48, 49, 50, 51, 52, 53, 54, 55, 56, 57,
      65, 66, 67, 68, 69, 70, 71, 72, 74, 75,
      77, 78, 80, 81, 82, 83, 84, 86, 87, 88,
      89, 90>>

\* The value with every limb zero.
ZeroU128 == <<0, 0, 0, 0, 0, 0, 0, 0>>

\* u128 comparison: a < b.
U128Less(a, b) ==
    \E i \in 1..Limbs : a[i] < b[i] /\ \A j \in 1..(i - 1) : a[j] = b[j]

\* Limb i of value << 5: its own low 11 bits moved up, and the high 5 bits
\* of the limb below it.
ShlLimb(v, i) ==
    ((v[i] * 32) % LimbBase) + (IF i < Limbs THEN v[i + 1] \div 2048 ELSE 0)

\* value << 5 on a u128 whose top 5 bits are zero.
Shl5(v) ==
    <<ShlLimb(v, 1), ShlLimb(v, 2), ShlLimb(v, 3), ShlLimb(v, 4),
      ShlLimb(v, 5), ShlLimb(v, 6), ShlLimb(v, 7), ShlLimb(v, 8)>>

\* Limb i of value >> 5: its own high 11 bits moved down, and the low 5 bits
\* of the limb above it.
ShrLimb(v, i) ==
    (v[i] \div 32) + (IF i > 1 THEN (v[i - 1] % 32) * 2048 ELSE 0)

\* value >> 5 on a u128.
Shr5(v) ==
    <<ShrLimb(v, 1), ShrLimb(v, 2), ShrLimb(v, 3), ShrLimb(v, 4),
      ShrLimb(v, 5), ShrLimb(v, 6), ShrLimb(v, 7), ShrLimb(v, 8)>>

\* base32::LOOKUP: the 5-bit value of a byte, either case of a letter of the
\* alphabet; NO_VALUE (255) for every other byte.
NO_VALUE == 255
LOOKUP(b) ==
    LET u == IF b >= 97 /\ b <= 122 THEN b - 32 ELSE b
    IN IF \E i \in 1..32 : ALPHABET[i] = u
       THEN (CHOOSE i \in 1..32 : ALPHABET[i] = u) - 1
       ELSE NO_VALUE

RECURSIVE DecodeFrom(_, _, _)
\* The loop of base32::decode from byte i on: value = (value << 5) | val.
\* A byte outside the alphabet fails, and so does a digit that would carry
\* the value beyond 128 bits (the top 5 bits are already in use): the text's
\* first character is then above "7", which no 128-bit value's text has.
DecodeFrom(bytes, i, value) ==
    IF i > ULID_LEN THEN [ok |-> TRUE, value |-> value, error |-> ""]
    ELSE IF LOOKUP(bytes[i]) = NO_VALUE
    THEN [ok |-> FALSE, value |-> ZeroU128, error |-> "InvalidChar"]
    ELSE IF value[1] >= 2048
    THEN [ok |-> FALSE, value |-> ZeroU128, error |-> "InvalidChar"]
    ELSE DecodeFrom(bytes, i + 1,
             [Shl5(value) EXCEPT ![Limbs] = @ + LOOKUP(bytes[i])])

\* base32::decode: the length in bytes is checked first; then a character
\* outside the alphabet or a value exceeding 128 bits fails.
decode(s) ==
    IF ByteLen(s) # ULID_LEN
    THEN [ok |-> FALSE, value |-> ZeroU128, error |-> "InvalidLength"]
    ELSE DecodeFrom(Utf8(s), 1, ZeroU128)

\* FromStr for Ulid: ulid::Ulid::from_str(s)?, wrapped.
Ulid_from_str(s) == decode(s)

RECURSIVE EncodeFrom(_, _)
\* The loop of base32::encode: the i lowest digits of value, highest first.
EncodeFrom(value, i) ==
    IF i = 0 THEN <<>>
    ELSE Append(EncodeFrom(Shr5(value), i - 1), ALPHABET[(value[Limbs] % 32) + 1])

\* base32::encode: 26 characters.
encode(value) == EncodeFrom(value, ULID_LEN)

\* self.ulid.to_string(), through Deref to ulid::Ulid.
Ulid_to_string(value) == encode(value)

\* The clock readings (48 bits, milliseconds) and random parts (80 bits) the
\* generator may draw.
NowSamples == { <<417, 4660, 22136>>, <<417, 4660, 22137>> }
RandSamples == { <<0, 0, 0, 0, 0>>, <<32768, 0, 7, 31, 65535>> }

\* Ulid::new: (timestamp << 80) | random.
Ulid_new(now, rand) == now \o rand

(***************************************************************************)
(* ResourceID (src/src/lib.rs).                                            *)
(***************************************************************************)
\* What an operation returns.  kind is "Ok" (a ResourceID: resource, ulid),
\* "Err" (a ResourceIDError: err, with value for InvalidResourceType and
\* InvalidLength and inner for UnableToDecodeUlid), "Text" (a serialized
\* string: value), "Panic" (the call panicked) or "None" (nothing yet).
Ok(resource, ulid) ==
    [kind |-> "Ok", err |-> "", inner |-> "", value |-> <<>>,
     resource |-> resource, ulid |-> ulid]
Err(err, value, inner) ==
    [kind |-> "Err", err |-> err, inner |-> inner, value |-> value,
     resource |-> <<>>, ulid |-> <<>>]
Text(value) ==
    [kind |-> "Text", err |-> "", inner |-> "", value |-> value,
     resource |-> <<>>, ulid |-> <<>>]
Panic ==
    [kind |-> "Panic", err |-> "", inner |-> "", value |-> <<>>,
     resource |-> <<>>, ulid |-> <<>>]
None ==
    [kind |-> "None", err |-> "", inner |-> "", value |-> <<>>,
     resource |-> <<>>, ulid |-> <<>>]

\* ResourceID::validate_resource: the length in bytes must be 4.
validate_resource(value) ==
    IF ByteLen(value) # TagLen
    THEN Err("InvalidResourceType", value, "")
    ELSE Ok(<<>>, <<>>)

\* ResourceID::new, given the Ulid that Ulid::new() returned at its first line.
new(resource, ulid) ==
    LET upper == to_uppercase(resource)
    IN IF validate_resource(upper).kind = "Err"
       THEN validate_resource(upper)
       ELSE Ok(upper, ulid)

\* Display writing only the timestamp part of the Ulid's text (its first 10
\* characters) after the resource.
to_string_timestamp(id) == id.resource \o SubSeq(Ulid_to_string(id.ulid), 1, 10)

\* Display for ResourceID (to_string): resource, then the Ulid's text.
to_string(id) == id.resource \o Ulid_to_string(id.ulid)

\* from_str past its length check, keeping the tag in the case it was given.
from_str_split_as_given(s) ==
    IF ~is_char_boundary(s, TagLen) THEN Panic
    ELSE LET resource_str == SliceTo(s, TagLen)
             ulid == Ulid_from_str(SliceFrom(s, TagLen))
         IN IF validate_resource(resource_str).kind = "Err"
            THEN validate_resource(resource_str)
            ELSE IF ~ulid.ok
            THEN Err("UnableToDecodeUlid", <<>>, ulid.error)
            ELSE Ok(resource_str, ulid.value)

\* from_str past its length check.
from_str_split(s) ==
    IF ~is_char_boundary(s, TagLen) THEN Panic
    ELSE LET resource_str == SliceTo(s, TagLen)
             ulid_str == SliceFrom(s, TagLen)
             ulid == Ulid_from_str(ulid_str)
         IN IF validate_resource(resource_str).kind = "Err"
            THEN validate_resource(resource_str)
            ELSE IF ~ulid.ok
            THEN Err("UnableToDecodeUlid", <<>>, ulid.error)
            ELSE Ok(to_uppercase(resource_str), ulid.value)

\* from_str rejecting only the texts that are too short.
from_str_short_only(s) ==
    IF ByteLen(s) < IdLen
    THEN Err("InvalidLength", s, "")
    ELSE from_str_split(s)

\* FromStr for ResourceID.
from_str(s) ==
    IF ByteLen(s) # IdLen
    THEN Err("InvalidLength", s, "")
    ELSE from_str_split(s)

\* Serialize for ResourceID: the string handed to the serializer.
serialize(id) == Text(to_string(id))

\* Deserialize for ResourceID: from_str on the string read; an error becomes
\* the deserializer's custom error, which carries the original's description.
deserialize(s) == from_str(s)

(***************************************************************************)
(* Inputs.                                                                 *)
(***************************************************************************)
\* Tags given to ResourceID::new: of 3, 4 and 6 characters, in either case,
\* a tag of 4 characters and 5 bytes, and tags of 3 characters whose
\* uppercase forms have 4 characters.
TagInputs ==
    { Str(<<"U", "S", "E", "R">>), Str(<<"u", "s", "e", "r">>),
      Str(<<"A", "C", "C", "T">>),
      Str(<<"F", "O", "O">>), Str(<<"f", "o", "o">>),
      Str(<<"F", "O", "O", "B", "A", "R">>),
      <<NonAscii.e_acute>> \o Str(<<"a", "b", "c">>),
      <<NonAscii.fi_lig>> \o Str(<<"a", "b">>),
      <<NonAscii.n_apos>> \o Str(<<"a", "b">>) }

\* The leading part of a text given to from_str.
PrefixInputs ==
    { Str(<<"U", "S", "E", "R">>), Str(<<"u", "s", "e", "r">>),
      Str(<<"F", "O", "O", "B">>), Str(<<"U", "S">>),
      Str(<<"U", "S", "E">>) \o <<NonAscii.e_acute>>,
      <<NonAscii.e_acute>> \o Str(<<"S", "E", "R">>),
      <<NonAscii.e_acute, NonAscii.e_acute>>,
      <<NonAscii.fi_lig>> \o Str(<<"a">>),
      <<NonAscii.n_apos>> \o Str(<<"a", "b">>) }

\* The first and last characters of the rest of the text: the largest first
\* digit of a 128-bit value ("7"), a digit beyond it ("Z"), a lowercase digit
\* ("v"), a letter outside the alphabet ("U") and a multi-byte character.
HeadInputs == { <<>>, Str(<<"7">>), Str(<<"Z">>) }
TailInputs == { <<>>, Str(<<"v">>), Str(<<"U">>), <<NonAscii.e_acute>> }

\* The numbers of characters of the rest of the text.
RestLens == (ULID_LEN - MaxPad)..(ULID_LEN + MaxPad)

\* head, then "0"s, then tail: n characters in all.
SuffixText(head, tail, n) ==
    head \o Repeat(48, n - Len(head) - Len(tail)) \o tail

\* "USER01ARZ3NDEKTSV4RRFFQ69G5FAV", the same in lowercase, and "FOOBAR"
\* before the first 24 characters of that suffix text.
ExampleSuffix ==
    Str(<<"0", "1", "A", "R", "Z", "3", "N", "D", "E", "K", "T", "S", "V",
          "4", "R", "R", "F", "F", "Q", "6", "9", "G", "5", "F", "A", "V">>)
ExampleTexts ==
    { Str(<<"U", "S", "E", "R">>) \o ExampleSuffix,
      Str(<<"u", "s", "e", "r", "0", "1", "a", "r", "z", "3", "n", "d", "e",
            "k", "t", "s", "v", "4", "r", "r", "f", "f", "q", "6", "9", "g",
            "5", "f", "a", "v">>),
      Str(<<"F", "O", "O", "B", "A", "R">>) \o SubSeq(ExampleSuffix, 1, 24) }

\* The texts given to from_str: every prefix before "0"s, "USER" before
\* every head and tail, and the examples.
TextInputs ==
    ExampleTexts \cup
    { p \o SuffixText(<<>>, <<>>, n) : p \in PrefixInputs, n \in RestLens }
    \cup
    { Str(<<"U", "S", "E", "R">>) \o SuffixText(h, t, n) :
        h \in HeadInputs, t \in TailInputs, n \in RestLens }

(***************************************************************************)
(* The state: the last operation called (op), its argument (arg), what it  *)
(* returned (ret), the identifier the caller kept from before (held), the   *)
(* number of values drawn from the Ulid generator so far (drawn) and the    *)
(* number of calls of new and from_str so far (calls).                      *)
(***************************************************************************)
Init ==
    /\ op = "none"
    /\ arg = <<>>
    /\ ret = None
    /\ held = None
    /\ drawn = 0
    /\ calls = 0

\* The caller keeps the identifier an operation returned.
Keep == IF ret.kind = "Ok" THEN ret ELSE held

\* The number of values ResourceID::new draws from the generator:
\* Ulid::new() is its first statement, before the tag is validated.
new_draws(resource) == 1

\* ResourceID::new(resource).
New(resource) ==
    /\ calls < MaxCalls
    /\ \E now \in NowSamples, rand \in RandSamples :
          ret' = new(resource, Ulid_new(now, rand))
    /\ drawn' = drawn + new_draws(resource)
    /\ calls' = calls + 1
    /\ op' = "new"
    /\ arg' = resource
    /\ held' = Keep

\* s.parse::<ResourceID>() / ResourceID::from_str(s).
FromStr(s) ==
    /\ calls < MaxCalls
    /\ ret' = from_str(s)
    /\ calls' = calls + 1
    /\ op' = "from_str"
    /\ arg' = s
    /\ held' = Keep
    /\ UNCHANGED drawn

\* Serialize the identifier last returned.
Serialize ==
    /\ ret.kind = "Ok"
    /\ ret' = serialize(ret)
    /\ op' = "serialize"
    /\ arg' = <<>>
    /\ held' = ret
    /\ UNCHANGED <<drawn, calls>>

\* Deserialize the string last serialized.
Deserialize ==
    /\ ret.kind = "Text"
    /\ ret' = deserialize(ret.value)
    /\ op' = "deserialize"
    /\ arg' = ret.value
    /\ UNCHANGED <<held, drawn, calls>>

Next ==
    \/ \E resource \in TagInputs : New(resource)
    \/ \E s \in TextInputs : FromStr(s)
    \/ Serialize
    \/ Deserialize

Spec == Init /\ [][Next]_vars

(***************************************************************************)
(* Properties.  "Length" and len() are str::len, the length in bytes;       *)
(* "characters" are Unicode scalar values; s[a:b] is the slice of bytes a   *)
(* to b, as in the source.                                                  *)
(***************************************************************************)
\* The last operation parsed a text.
Parsed == op \in {"from_str", "deserialize"}

\* A character of the suffix alphabet, in either case.
InAlphabet(c) == c < 128 /\ LOOKUP(c) # NO_VALUE

\* The last n characters of s (all of s when it has fewer).
LastChars(s, n) == SubSeq(s, IF Len(s) > n THEN Len(s) - n + 1 ELSE 1, Len(s))

\* Valid suffix text: 26 characters of the alphabet.
ValidSuffixText(t) ==
    /\ Len(t) = ULID_LEN
    /\ \A i \in 1..Len(t) : InAlphabet(t[i])

\* Suffix text whose first digit is at most 7: its value fits 128 bits.
FitsU128(t) == ValidSuffixText(t) /\ LOOKUP(t[1]) <= 7

\* Lexicographic order of two byte strings: x < y.
LexLess(x, y) ==
    \E i \in 1..Len(y) :
        /\ \A j \in 1..(i - 1) : j <= Len(x) /\ x[j] = y[j]
        /\ (i > Len(x) \/ x[i] < y[i])

\* C1: every identifier returned by new or from_str parses back from its own
\* text to an equal identifier, and deserialize(serialize(id)) = id.
C1_RoundTrip ==
    /\ ret.kind = "Ok" => from_str(to_string(ret)) = ret
    /\ op = "deserialize" => ret = held

\* C2: every identifier returned has a resource of exactly 4 characters that
\* equals its own uppercase form, and a text of exactly 30 characters.
C2_ResourceAndTextLength ==
    ret.kind = "Ok" =>
        /\ CharLen(ret.resource) = TagLen
        /\ to_uppercase(ret.resource) = ret.resource
        /\ CharLen(to_string(ret)) = IdLen

\* C3: new on a tag of exactly 4 characters succeeds, with resource =
\* uppercase(t), len(text) = 30 and text[0:4] = uppercase(t).
C3_ConstructSucceeds ==
    (op = "new" /\ CharLen(arg) = TagLen) =>
        /\ ret.kind = "Ok"
        /\ ret.resource = to_uppercase(arg)
        /\ ByteLen(to_string(ret)) = IdLen
        /\ SliceTo(to_string(ret), TagLen) = to_uppercase(arg)

\* C4: new on a tag that is not exactly 4 characters long fails with
\* InvalidResourceType carrying the tag as it was supplied.
C4_ConstructErrorCarriesInput ==
    (op = "new" /\ CharLen(arg) # TagLen) =>
        ret = Err("InvalidResourceType", arg, "")

\* C5: parsing a text whose length is not 30 fails with InvalidLength
\* carrying the text unchanged, whatever its tag and suffix regions hold.
C5_InvalidLength ==
    (Parsed /\ ByteLen(arg) # IdLen) => ret = Err("InvalidLength", arg, "")

\* C5 happens: a text of the wrong length whose last characters are not
\* suffix text either was parsed.
C5_Witness ==
    /\ op = "from_str"
    /\ ByteLen(arg) # IdLen
    /\ ~InAlphabet(arg[Len(arg)])
    /\ ret.err = "InvalidLength"

\* C6: parsing a text of length 30 whose last 26 characters hold a character
\* outside the suffix alphabet fails with UnableToDecodeUlid.
C6_InvalidSuffix ==
    (/\ Parsed
     /\ ByteLen(arg) = IdLen
     /\ CharLen(arg) >= ULID_LEN
     /\ \E i \in 1..ULID_LEN : ~InAlphabet(LastChars(arg, ULID_LEN)[i]))
    => (ret.kind = "Err" /\ ret.err = "UnableToDecodeUlid")

\* C7: new and from_str return an identifier or one of the three typed
\* errors; they never panic.
C7_Total ==
    op \in {"new", "from_str", "deserialize"} =>
        \/ ret.kind = "Ok"
        \/ /\ ret.kind = "Err"
           /\ ret.err \in {"InvalidResourceType", "InvalidLength",
                           "UnableToDecodeUlid"}

\* C8: two identifiers of the same resource sort by their texts as their
\* 128-bit values sort, and have equal texts exactly when the values are
\* equal.
C8_Sortable ==
    (ret.kind = "Ok" /\ held.kind = "Ok" /\ ret.resource = held.resource) =>
        /\ LexLess(Utf8(to_string(ret)), Utf8(to_string(held)))
              <=> U128Less(ret.ulid, held.ulid)
        /\ LexLess(Utf8(to_string(held)), Utf8(to_string(ret)))
              <=> U128Less(held.ulid, ret.ulid)
        /\ (to_string(ret) = to_string(held)) <=> (ret.ulid = held.ulid)

\* C8 happens: two identifiers of one resource whose values differ only
\* below the timestamp, the parsed one being the smaller.
C8_Witness ==
    /\ op = "from_str"
    /\ ret.kind = "Ok" /\ held.kind = "Ok"
    /\ ret.resource = held.resource
    /\ SubSeq(ret.ulid, 1, 3) = SubSeq(held.ulid, 1, 3)
    /\ U128Less(ret.ulid, held.ulid)
    /\ ret.ulid # ZeroU128

C10_ValidateBeforeGenerate ==
    [][/\ (op' = "new" /\ ret'.kind = "Err") => drawn' = drawn
       /\ (op' = "new" /\ ret'.kind = "Ok") => drawn' = drawn + 1
       /\ (op' \in {"from_str", "deserialize"}) => drawn' = drawn]_vars

====
